---- MODULE Spec2Model ----
(***************************************************************************)
(* PhishSleuth: the rules-based phishing analyzer (sleuth/heuristics.py),  *)
(* the mode selection of the Streamlit front-end (app.py, with             *)
(* sleuth/url_tools.py) and the external-judgment adapter                  *)
(* (sleuth/ai_reason.py).                                                  *)
(*                                                                         *)
(* Texts are TLA+ strings; the analyzers work on them character by         *)
(* character (substring containment, regular-expression scans, urlparse),  *)
(* as the Python code does.                                                *)
(***************************************************************************)
EXTENDS Integers, Sequences, FiniteSets, TLC

VARIABLES
    txt,     \* app.py: the content of the text area; the argument of a direct call
    parts,   \* how many fragments were typed into txt
    ui,      \* where the run is: "idle", "app" (the app selected the mode), "call" (a
             \* direct call is entered), "done" (the analysis returned), "warning"
    mode,    \* the mode of the last analysis: "url", "text" or "none"
    ret,     \* heuristics.py: (rule_score, findings) inside analyze_text_or_url
    result,  \* the dict analyze_text_or_url returned
    ai       \* ai_reason.py: the last call of ai_judge

vars == <<txt, parts, ui, mode, ret, result, ai>>

(***************************************************************************)
(* Bounds of the model.                                                    *)
(***************************************************************************)
\* the number of fragments typed into the text area
MaxParts == 3
\* the scores the external model may answer range over -AiSlack .. 100 + AiSlack
AiSlack == 3

(***************************************************************************)
(* Python built-ins on strings and numbers.                                *)
(***************************************************************************)
Min(a, b) == IF a <= b THEN a ELSE b

Max(a, b) == IF a >= b THEN a ELSE b

MinOf(S) == CHOOSE i \in S : \A j \in S : i <= j

\* s[i] (1-based), a one-character string
Char(s, i) == SubSeq(s, i, i)

\* s[i:] (1-based, inclusive)
From(s, i) == SubSeq(s, i, Len(s))

\* w in t
Contains(t, w) ==
    \E i \in 1..(Len(t) - Len(w) + 1) : SubSeq(t, i, i + Len(w) - 1) = w

\* t.startswith(w) at offset i (1-based)
StartsAt(t, i, w) == i + Len(w) - 1 <= Len(t) /\ SubSeq(t, i, i + Len(w) - 1) = w

\* t.endswith(w)
EndsWith(t, w) == Len(w) <= Len(t) /\ SubSeq(t, Len(t) - Len(w) + 1, Len(t)) = w

\* the positions of s holding a character of the set cs
Positions(s, cs) == {i \in 1..Len(s) : Char(s, i) \in cs}

\* sum(1 for c in s if c in cs); s.count(c) for a single character
Count(s, cs) == Cardinality(Positions(s, cs))

\* the characters str.strip() removes and the regular-expression class \s matches
\* (ASCII; \v and the Unicode spaces have no TLA+ literal)
Whitespace == {" ", "\t", "\n", "\r", "\f"}

Digits == {"0", "1", "2", "3", "4", "5", "6", "7", "8", "9"}

UpperToLower ==
    [A |-> "a", B |-> "b", C |-> "c", D |-> "d", E |-> "e", F |-> "f", G |-> "g",
     H |-> "h", I |-> "i", J |-> "j", K |-> "k", L |-> "l", M |-> "m", N |-> "n",
     O |-> "o", P |-> "p", Q |-> "q", R |-> "r", S |-> "s", T |-> "t", U |-> "u",
     V |-> "v", W |-> "w", X |-> "x", Y |-> "y", Z |-> "z"]

LowerToUpper ==
    [a |-> "A", b |-> "B", c |-> "C", d |-> "D", e |-> "E", f |-> "F", g |-> "G",
     h |-> "H", i |-> "I", j |-> "J", k |-> "K", l |-> "L", m |-> "M", n |-> "N",
     o |-> "O", p |-> "P", q |-> "Q", r |-> "R", s |-> "S", t |-> "T", u |-> "U",
     v |-> "V", w |-> "W", x |-> "X", y |-> "Y", z |-> "Z"]

Letters == DOMAIN UpperToLower \cup DOMAIN LowerToUpper

LowerChar(c) == IF c \in DOMAIN UpperToLower THEN UpperToLower[c] ELSE c

UpperChar(c) == IF c \in DOMAIN LowerToUpper THEN LowerToUpper[c] ELSE c

RECURSIVE LowerRange(_, _, _)
\* s[lo..hi] with every character lower-cased (the range is halved, not walked)
LowerRange(s, lo, hi) ==
    IF lo > hi THEN ""
    ELSE IF lo = hi THEN LowerChar(Char(s, lo))
    ELSE LET mid == (lo + hi) \div 2
         IN  LowerRange(s, lo, mid) \o LowerRange(s, mid + 1, hi)

\* s.lower()
Lower(s) == LowerRange(s, 1, Len(s))

RECURSIVE TitleRange(_, _, _)
TitleRange(s, lo, hi) ==
    IF lo > hi THEN ""
    ELSE IF lo = hi
    THEN (IF lo = 1 \/ Char(s, lo - 1) \notin Letters
          THEN UpperChar(Char(s, lo))
          ELSE LowerChar(Char(s, lo)))
    ELSE LET mid == (lo + hi) \div 2
         IN  TitleRange(s, lo, mid) \o TitleRange(s, mid + 1, hi)

\* s.title()
Title(s) == TitleRange(s, 1, Len(s))

RECURSIVE RemoveRange(_, _, _, _)
\* s[lo..hi] without the characters of cs
RemoveRange(s, lo, hi, cs) ==
    IF lo > hi THEN ""
    ELSE IF lo = hi THEN (IF Char(s, lo) \in cs THEN "" ELSE Char(s, lo))
    ELSE LET mid == (lo + hi) \div 2
         IN  RemoveRange(s, lo, mid, cs) \o RemoveRange(s, mid + 1, hi, cs)

\* s.strip()
Strip(s) ==
    LET keep == {i \in 1..Len(s) : Char(s, i) \notin Whitespace}
    IN  IF keep = {} THEN ""
        ELSE SubSeq(s, MinOf(keep), CHOOSE i \in keep : \A j \in keep : j <= i)

\* s.split(sep)[0] for a one-character separator
SplitFirst(s, sep) ==
    LET at == Positions(s, {sep})
    IN  IF at = {} THEN s ELSE SubSeq(s, 1, MinOf(at) - 1)

(***************************************************************************)
(* sleuth/heuristics.py: keyword sets.                                     *)
(***************************************************************************)
URGENT_TERMS ==
    <<"urgent", "immediately", "asap", "straight away",
      "within 24 hours", "today", "now", "right away">>

THREAT_TERMS ==
    <<"account will be closed", "suspended", "locked",
      "last warning", "final notice", "legal action",
      "fine", "penalty", "lose access", "limited access">>

CREDENTIAL_TERMS ==
    <<"login", "log in", "sign in", "verify your account",
      "confirm your account", "update your account",
      "password", "passcode", "one time password", "otp",
      "security code", "verification code">>

PAYMENT_TERMS ==
    <<"invoice", "payment", "pay now", "overdue",
      "bank details", "credit card", "debit card",
      "wire transfer", "bitcoin", "crypto">>

ATTACHMENT_TERMS ==
    <<"attachment", "attached", "see attached", "open the attached",
      ".zip", ".exe", ".html", ".htm", ".pdf">>

GENERIC_GREETINGS ==
    <<"dear customer", "dear client", "dear user",
      "dear valued customer", "dear valued client">>

BRAND_KEYWORDS ==
    <<"dhl", "fedex", "ups", "amazon", "paypal",
      "apple", "microsoft", "standard bank", "fnb",
      "absa", "capitec", "netflix", "facebook", "instagram">>

SUSPICIOUS_TLDS ==
    <<".top", ".xyz", ".club", ".click", ".info", ".shop",
      ".work", ".loan", ".win", ".men", ".kim">>

URL_SHORTENERS ==
    <<"bit.ly", "tinyurl.com", "goo.gl", "t.co", "ow.ly", "is.gd">>

(***************************************************************************)
(* sleuth/heuristics.py: helpers.  A helper that appends to the findings   *)
(* list and returns a weight is the record [ret, findings] of the value it *)
(* returns and the list it leaves.                                         *)
(***************************************************************************)
Finding(label, detail, severity, weight) ==
    [label |-> label, detail |-> detail, severity |-> severity, weight |-> weight]

_add(findings, label, detail, severity, weight) ==
    [ret |-> weight,
     findings |-> Append(findings, Finding(label, detail, severity, weight))]

\* sum(1 for w in TERMS if w in text_lower)
Hits(terms, text_lower) ==
    Cardinality({i \in DOMAIN terms : Contains(text_lower, terms[i])})

\* _score_for_urgency once hits is counted
UrgencyHits(hits, findings) ==
    IF hits = 0 THEN [ret |-> 0, findings |-> findings]
    ELSE _add(findings, "Urgency language",
                  "Detected " \o ToString(hits) \o " urgency phrases.",
                  IF hits <= 2 THEN "medium" ELSE "high",
                  Min(25, hits * 6))

_score_for_urgency(text_lower, findings) ==
    UrgencyHits(Hits(URGENT_TERMS, text_lower), findings)

\* _score_for_threats once hits is counted
ThreatsHits(hits, findings) ==
    IF hits = 0 THEN [ret |-> 0, findings |-> findings]
    ELSE _add(findings, "Threat/penalty language",
                  "Detected " \o ToString(hits) \o " threat/penalty phrases.",
                  IF hits = 1 THEN "medium" ELSE "high",
                  Min(25, 8 * hits))

_score_for_threats(text_lower, findings) ==
    ThreatsHits(Hits(THREAT_TERMS, text_lower), findings)

\* the weight without its cap: 10 * hits
CredentialsHits_NoCap(hits, findings) ==
    IF hits = 0 THEN [ret |-> 0, findings |-> findings]
    ELSE _add(findings, "Credentials / OTP request",
              "Message refers to login, passwords or codes.", "high", 10 * hits)

\* _score_for_credentials once hits is counted
CredentialsHits(hits, findings) ==
    IF hits = 0 THEN [ret |-> 0, findings |-> findings]
    ELSE _add(findings, "Credentials / OTP request",
                  "Message refers to login, passwords or codes.",
                  "high",
                  Min(30, 10 * hits))

_score_for_credentials(text_lower, findings) ==
    CredentialsHits(Hits(CREDENTIAL_TERMS, text_lower), findings)

\* _score_for_payments once hits is counted
PaymentsHits(hits, findings) ==
    IF hits = 0 THEN [ret |-> 0, findings |-> findings]
    ELSE _add(findings, "Payment / money request",
                  "Message pushes a payment, invoice or financial transfer.",
                  IF hits = 1 THEN "medium" ELSE "high",
                  Min(25, 7 * hits))

_score_for_payments(text_lower, findings) ==
    PaymentsHits(Hits(PAYMENT_TERMS, text_lower), findings)

\* _score_for_attachments once hits is counted
AttachmentsHits(hits, findings) ==
    IF hits = 0 THEN [ret |-> 0, findings |-> findings]
    ELSE _add(findings, "Attachment lure",
                  "Message mentions attachments or risky file types.",
                  "medium",
                  Min(20, 5 * hits))

_score_for_attachments(text_lower, findings) ==
    AttachmentsHits(Hits(ATTACHMENT_TERMS, text_lower), findings)

RECURSIVE JoinFrom(_, _, _)
\* ", ".join(g for g in terms[i:] if g in text_lower)
JoinFrom(terms, text_lower, i) ==
    IF i > Len(terms) THEN ""
    ELSE LET rest == JoinFrom(terms, text_lower, i + 1)
         IN  IF ~Contains(text_lower, terms[i]) THEN rest
             ELSE IF rest = "" THEN terms[i]
             ELSE terms[i] \o ", " \o rest

_score_for_greeting(text_lower, findings) ==
    IF \A i \in DOMAIN GENERIC_GREETINGS : ~Contains(text_lower, GENERIC_GREETINGS[i])
    THEN [ret |-> 0, findings |-> findings]
    ELSE _add(findings, "Generic greeting",
              "Uses non-personal greeting: "
                  \o JoinFrom(GENERIC_GREETINGS, text_lower, 1) \o ".",
              "low", 8)

(***************************************************************************)
(* The regular-expression scans.  re.findall returns the leftmost,         *)
(* non-overlapping matches; a match of  https?://[^stops]+  starts where   *)
(* "http://" or "https://" is followed by at least one character outside   *)
(* stops, and runs to the next character of stops.                         *)
(***************************************************************************)
\* where the match starting at i ends (exclusive), 0 when none starts at i;
\* fold is the case folding of the pattern (the identity, or Lower under re.I)
MatchEnd(t, folded, i, stops) ==
    LET p == IF StartsAt(folded, i, "http://") THEN i + 7
             ELSE IF StartsAt(folded, i, "https://") THEN i + 8
             ELSE 0
    IN  IF p = 0 \/ p > Len(t) \/ Char(t, p) \in stops THEN 0
        ELSE LET ends == {j \in p..Len(t) : Char(t, j) \in stops}
             IN  IF ends = {} THEN Len(t) + 1 ELSE MinOf(ends)

RECURSIVE FindAllFrom(_, _, _, _)
FindAllFrom(t, folded, i, stops) ==
    LET starts == {j \in i..Len(t) : MatchEnd(t, folded, j, stops) # 0}
    IN  IF starts = {} THEN <<>>
        ELSE LET b == MinOf(starts)
                 e == MatchEnd(t, folded, b, stops)
             IN  <<SubSeq(t, b, e - 1)>> \o FindAllFrom(t, folded, e, stops)

\* heuristics.py: re.findall(r"https?://[^\s]+", text)
_extract_urls(text) == FindAllFrom(text, text, 1, Whitespace)

\* url_tools.py: _URL_RE = re.compile(r'(https?://[^\s<>"\)\]]+)', re.I)
_URL_RE(text) ==
    FindAllFrom(text, Lower(text), 1, Whitespace \cup {"<", ">", "\"", ")", "]"})

\* url_tools.py
extract_urls(text) == IF text = "" THEN <<>> ELSE _URL_RE(text)

(***************************************************************************)
(* urllib.parse.urlparse, as far as its netloc and its ValueError go.      *)
(***************************************************************************)
SchemeChars == Letters \cup Digits \cup {"+", "-", "."}

\* url[:2] == '//': the netloc runs up to the first of "/?#"
SplitNetloc(rest) ==
    LET delims == {k \in 3..Len(rest) : Char(rest, k) \in {"/", "?", "#"}}
    IN  IF StartsAt(rest, 1, "//")
        THEN SubSeq(rest, 3, IF delims = {} THEN Len(rest) ELSE MinOf(delims) - 1)
        ELSE ""

\* [raised |-> the call raises ValueError("Invalid IPv6 URL"), netloc |-> parsed.netloc]
CheckBrackets(netloc) ==
    [raised |-> Contains(netloc, "[") # Contains(netloc, "]"), netloc |-> netloc]

\* the scheme is split off when the text before the first ":" is a scheme
AfterScheme(url) ==
    LET colon == Positions(url, {":"})
        i == IF colon = {} THEN 0 ELSE MinOf(colon)
    IN  IF /\ i > 1
           /\ Char(url, 1) \in Letters
           /\ \A k \in 1..(i - 1) : Char(url, k) \in SchemeChars
        THEN From(url, i + 1)
        ELSE url

\* url.lstrip(_WHATWG_C0_CONTROL_OR_SPACE)
LStrip(s) ==
    LET lead == {i \in 1..Len(s) : Char(s, i) \notin Whitespace}
    IN  IF lead = {} THEN "" ELSE From(s, MinOf(lead))

\* the tab and newline characters are removed from the URL
RemoveUnsafe(s) == RemoveRange(s, 1, Len(s), {"\t", "\n", "\r"})

urlparse(url) == CheckBrackets(SplitNetloc(AfterScheme(RemoveUnsafe(LStrip(url)))))

\* re.match(r"^\d{1,3}(\.\d{1,3}){3}$", h)
IsRawIP(h) ==
    LET dots == Positions(h, {"."})
    IN  /\ Cardinality(dots) = 3
        /\ \A k \in 1..Len(h) : Char(h, k) \in Digits \cup {"."}
        /\ \A a \in dots \cup {0} :
              LET after == {b \in dots \cup {Len(h) + 1} : b > a}
                  n == MinOf(after) - a - 1
              IN  n >= 1 /\ n <= 3

\* host.startswith(tld) in place of host.endswith(tld)
FirstTld_Prefix(host) ==
    LET at == {k \in DOMAIN SUSPICIOUS_TLDS : StartsAt(host, 1, SUSPICIOUS_TLDS[k])}
    IN  IF at = {} THEN 0 ELSE MinOf(at)

\* the index of the first suspicious TLD the host ends with, 0 if none
FirstTld(host) ==
    LET at == {k \in DOMAIN SUSPICIOUS_TLDS : EndsWith(host, SUSPICIOUS_TLDS[k])}
    IN  IF at = {} THEN 0 ELSE MinOf(at)

\* any(short in host for short in URL_SHORTENERS)
IsShortener(host) ==
    \E k \in DOMAIN URL_SHORTENERS : Contains(host, URL_SHORTENERS[k])

\* the index of the first brand in the text and not in the host, 0 if none
FirstBrand(host, text_lower) ==
    LET at == {k \in DOMAIN BRAND_KEYWORDS :
                  /\ Contains(text_lower, BRAND_KEYWORDS[k])
                  /\ ~Contains(host, BRAND_KEYWORDS[k])}
    IN  IF at = {} THEN 0 ELSE MinOf(at)

NoUrlFinding == <<0, "", "", "">>

TldFinding(tld) ==
    <<18, "Unusual domain", "Domain ends with " \o SUSPICIOUS_TLDS[tld] \o ".",
      "medium">>

BrandFinding(brand) ==
    IF brand = 0 THEN NoUrlFinding
    ELSE <<22, "Possible brand impersonation",
           "Mentions " \o Title(BRAND_KEYWORDS[brand])
               \o " but domain does not match brand.", "high">>

\* the brand check made first
ScoreHost_BrandFirst(host, text_lower) ==
    IF FirstBrand(host, text_lower) # 0
    THEN BrandFinding(FirstBrand(host, text_lower))
    ELSE IF IsRawIP(SplitFirst(host, ":"))
    THEN <<25, "IP address URL", "Link uses raw IP address.", "high">>
    ELSE IF FirstTld(host) # 0 THEN TldFinding(FirstTld(host))
    ELSE IF Count(host, Digits) >= 5 \/ Count(host, {"-"}) >= 3
    THEN <<15, "Noisy domain", "Domain has many digits or dashes.", "medium">>
    ELSE IF IsShortener(host)
    THEN <<20, "URL shortener", "Link uses a generic URL shortener.", "medium">>
    ELSE NoUrlFinding

\* the checks of _score_single_url on the host, the first that holds returning
ScoreHost(host, text_lower) ==
    IF IsRawIP(SplitFirst(host, ":"))
    THEN <<25, "IP address URL", "Link uses raw IP address.", "high">>
    ELSE IF FirstTld(host) # 0 THEN TldFinding(FirstTld(host))
    ELSE IF Count(host, Digits) >= 5 \/ Count(host, {"-"}) >= 3
    THEN <<15, "Noisy domain", "Domain has many digits or dashes.", "medium">>
    ELSE IF IsShortener(host)
    THEN <<20, "URL shortener", "Link uses a generic URL shortener.", "medium">>
    ELSE BrandFinding(FirstBrand(host, text_lower))

\* the checks run on whatever host is there, the ValueError ignored
ScoreParsed_NoExcept(parsed, text_lower) == ScoreHost(Lower(parsed.netloc), text_lower)

\* try: parsed = urlparse(url); host = ... except Exception: return 0, "", "", ""
ScoreParsed(parsed, text_lower) ==
    IF parsed.raised THEN NoUrlFinding
    ELSE ScoreHost(Lower(parsed.netloc), text_lower)

\* the tuple (weight, label, detail, severity)
_score_single_url(url, text_lower) == ScoreParsed(urlparse(url), text_lower)

\* the body of the loop of _score_for_urls for one URL and its tuple r;
\* acc is [score, findings]
UrlStep(acc, url, r) ==
    IF r[1] > 0
    THEN [score |-> acc.score + r[1],
          findings |-> Append(acc.findings,
                              Finding(r[2], r[3] \o " (" \o url \o ")", r[4], r[1]))]
    ELSE acc

RECURSIVE UrlLoop(_, _, _, _)
\* the loop of _score_for_urls from the i-th URL on
UrlLoop(urls, text_lower, i, acc) ==
    IF i > Len(urls) THEN acc
    ELSE UrlLoop(urls, text_lower, i + 1,
                 UrlStep(acc, urls[i], _score_single_url(urls[i], text_lower)))

\* return score, the cap forgotten
CapUrls_NoCap(done) == [ret |-> done.score, findings |-> done.findings]

\* return min(score, 40)
CapUrls(done) == [ret |-> Min(done.score, 40), findings |-> done.findings]

_score_for_urls(urls, text_lower, findings) ==
    CapUrls(UrlLoop(urls, text_lower, 1, [score |-> 0, findings |-> findings]))

\* score += r.ret, with the findings list r leaves
Plus(acc, r) == [score |-> acc.score + r.ret, findings |-> r.findings]

\* urls = _extract_urls(text); if urls: score += _score_for_urls(...)
PlusUrls(acc, urls, text_lower) ==
    IF urls # <<>> THEN Plus(acc, _score_for_urls(urls, text_lower, acc.findings))
    ELSE acc

AfterUrgency(tl, acc) == Plus(acc, _score_for_urgency(tl, acc.findings))

AfterThreats(tl, acc) == Plus(acc, _score_for_threats(tl, acc.findings))

AfterCredentials(tl, acc) == Plus(acc, _score_for_credentials(tl, acc.findings))

AfterPayments(tl, acc) == Plus(acc, _score_for_payments(tl, acc.findings))

AfterAttachments(tl, acc) == Plus(acc, _score_for_attachments(tl, acc.findings))

AfterGreeting(tl, acc) == Plus(acc, _score_for_greeting(tl, acc.findings))

\* the six category checks of score_and_flags_for_text, in the order they run
TextChecks(tl) ==
    AfterGreeting(tl,
      AfterAttachments(tl,
        AfterPayments(tl,
          AfterCredentials(tl,
            AfterThreats(tl,
              AfterUrgency(tl, [score |-> 0, findings |-> <<>>]))))))

\* the clamp with its ceiling forgotten: max(0, score)
Clamp_NoCeiling(acc) == [score |-> Max(0, acc.score), findings |-> acc.findings]

\* score = max(0, min(100, score)); return score, findings
Clamp(acc) == [score |-> Max(0, Min(100, acc.score)), findings |-> acc.findings]

\* text_lower = text.lower(), then the checks
TextSteps(text, text_lower) ==
    Clamp(PlusUrls(TextChecks(text_lower), _extract_urls(text), text_lower))

\* the pair (score, findings)
score_and_flags_for_text(text) == TextSteps(text, Lower(text))

\* if w > 0: findings.append(...); return max(0, min(100, w)), findings
UrlResult(r) ==
    [score |-> Max(0, Min(100, r[1])),
     findings |-> IF r[1] > 0 THEN <<Finding(r[2], r[3], r[4], r[1])>> ELSE <<>>]

score_and_flags_for_url(url) == UrlResult(_score_single_url(Strip(url), Lower(url)))

\* the cuts of another rule set: < 30 Low, < 60 Medium
Band_Cut30(rule_score) ==
    IF rule_score < 30 THEN "Low"
    ELSE IF rule_score < 60 THEN "Medium"
    ELSE "High"

Band(rule_score) ==
    IF rule_score < 25 THEN "Low"
    ELSE IF rule_score < 60 THEN "Medium"
    ELSE "High"

Meta(band, rule_score) ==
    <<Finding("Risk band", band \o " risk (rules-based).", "info", 0),
      Finding("Rule score", ToString(rule_score) \o "/100 (heuristics).", "info", 0)>>

\* analyze_text_or_url, first half: (rule_score, findings) of the mode's analyzer
Rules(inp, m) ==
    IF m = "url" THEN score_and_flags_for_url(Strip(inp))
    ELSE score_and_flags_for_text(inp)

\* the lists joined the other way round: findings + meta
Finish_MetaLast(r) ==
    [score |-> r.score, findings |-> r.findings \o Meta(Band(r.score), r.score)]

\* analyze_text_or_url, second half: the band, the meta findings, the dict returned
Finish(r) ==
    [score |-> r.score, findings |-> Meta(Band(r.score), r.score) \o r.findings]

analyze_text_or_url(inp, m) == Finish(Rules(inp, m))

(***************************************************************************)
(* sleuth/ai_reason.py.  The environment of a call: where the API key is,  *)
(* whether the client can be built, and what the service would answer.     *)
(***************************************************************************)
KeyPlaces == {"environment", "secrets", "nowhere", "no streamlit"}

ClientOutcomes == {"ok", "ImportError", "OpenAIError"}

Replies ==
    [kind : {"APITimeoutError", "IndexError", "no JSON", "garbled JSON",
             "score missing", "score null", "score text"}, v : {0}]
    \cup [kind : {"score int", "score digits"},
          v : (0 - AiSlack)..(100 + AiSlack)]

Envs == [key : KeyPlaces, client : ClientOutcomes, reply : Replies,
         rationale : {"", " Urgent tone, odd domain. "}]

NoKey == ""

_get_api_key(env) ==
    IF env.key = "environment" THEN "sk-key"
    ELSE IF env.key = "secrets" THEN "sk-key"
    ELSE NoKey

ai_available(env) == _get_api_key(env) # NoKey

\* the replacement fields of _PROMPT, in order: str.format reads every {...} as one
_PROMPT == <<"\"score\"", "content">>

\* str.format(**kwargs): the name of the first field that is no keyword, "" if none
FormatKeyError(template, kwargs) ==
    LET bad == {i \in DOMAIN template : template[i] \notin kwargs}
    IN  IF bad = {} THEN "" ELSE template[MinOf(bad)]

Returned(score, rationale, contacted) ==
    [raised |-> "", score |-> score, rationale |-> rationale, contacted |-> contacted]

Raised(class, contacted) ==
    [raised |-> class, score |-> 0, rationale |-> "", contacted |-> contacted]

\* int(max(0, min(100, int(data.get("score", 0)))))
ParseScore(reply) ==
    IF reply.kind = "score missing" THEN Max(0, Min(100, 0))
    ELSE Max(0, Min(100, reply.v))

\* the body of the try block of ai_judge, up to its first return or raise
TryBody(env) ==
    IF env.client # "ok" THEN Raised(env.client, FALSE)
    ELSE IF FormatKeyError(_PROMPT, {"content"}) # "" THEN Raised("KeyError", FALSE)
    ELSE IF env.reply.kind \in {"APITimeoutError", "IndexError"}
    THEN Raised(env.reply.kind, TRUE)
    ELSE IF env.reply.kind = "no JSON" THEN Returned(0, "AI returned no JSON.", TRUE)
    ELSE IF env.reply.kind = "garbled JSON" THEN Raised("JSONDecodeError", TRUE)
    ELSE IF env.reply.kind = "score null" THEN Raised("TypeError", TRUE)
    ELSE IF env.reply.kind = "score text" THEN Raised("ValueError", TRUE)
    ELSE Returned(ParseScore(env.reply),
                  IF Strip(env.rationale) = "" THEN "No rationale."
                  ELSE Strip(env.rationale),
                  TRUE)

\* a handler that names one class: except ValueError as e
Except_ValueErrorOnly(r) ==
    IF r.raised \in {"", "ValueError", "JSONDecodeError"}
    THEN (IF r.raised = "" THEN r
          ELSE Returned(0, "AI error; running rules-only. (" \o r.raised \o ")",
                        r.contacted))
    ELSE r

\* except Exception as e: every exception class of the body is caught
Except(r) ==
    IF r.raised = "" THEN r
    ELSE Returned(0, "AI error; running rules-only. (" \o r.raised \o ")",
                  r.contacted)

ai_judge(env) ==
    IF ~ai_available(env)
    THEN Returned(0, "AI disabled (no API key set or not visible).", FALSE)
    ELSE Except(TryBody(env))

(***************************************************************************)
(* The state machine.                                                      *)
(***************************************************************************)
\* what the user types or pastes, piece by piece
Fragments ==
    {" ",
     "Dear user, URGENT: fine, attachment ",
     "otp invoice ",
     "login, one time password, overdue crypto payment, see attached .html ",
     "DHL parcel: http://dhl-tracking-update.xyz/parcel",
     "http://192.168.1.5/paypal",
     "HTTPS://bit.ly/x",
     "http://[bad",
     "http:///x",
     "http://my-bank-secure-id.com/)"}

Modes == {"url", "text"}

NoResult == [score |-> 0, findings |-> <<>>]

NoCall == [pc |-> "idle"]

Init ==
    /\ txt = ""
    /\ parts = 0
    /\ ui = "idle"
    /\ mode = "none"
    /\ ret = NoResult
    /\ result = NoResult
    /\ ai = NoCall

\* app.py: the user edits the text area; the script reruns with the button released
Type(f) ==
    /\ parts < MaxParts
    /\ txt' = txt \o f
    /\ parts' = parts + 1
    /\ ui' = "idle"
    /\ mode' = "none"
    /\ ret' = NoResult
    /\ result' = NoResult
    /\ UNCHANGED ai

\* the comparison with the input as typed: urls[0] == txt
ModeFor_Untrimmed(urls, t) ==
    IF Len(urls) = 1 /\ urls[1] = t THEN "url" ELSE "text"

\* app.py: mode = "url" if len(urls) == 1 and urls[0].strip() == txt.strip() else "text"
ModeFor(urls, t) ==
    IF Len(urls) = 1 /\ Strip(urls[1]) = Strip(t) THEN "url" ELSE "text"

\* app.py: urls = extract_urls(txt), then the mode
SelectMode(t) == ModeFor(extract_urls(t), t)

\* app.py: the Analyze button with some text in the area: the mode is selected
Analyze ==
    /\ ui = "idle"
    /\ Strip(txt) # ""
    /\ mode' = SelectMode(txt)
    /\ ui' = "app"
    /\ UNCHANGED <<txt, parts, ret, result, ai>>

\* app.py: the Analyze button with a blank area
AnalyzeBlank ==
    /\ ui = "idle"
    /\ Strip(txt) = ""
    /\ ui' = "warning"
    /\ UNCHANGED <<txt, parts, mode, ret, result, ai>>

\* a direct call analyze_text_or_url(txt, m), as a test or another front-end makes it
Call(m) ==
    /\ ui = "idle"
    /\ mode' = m
    /\ ui' = "call"
    /\ UNCHANGED <<txt, parts, ret, result, ai>>

\* analyze_text_or_url(txt, mode) runs and returns; the app shows the result
Run ==
    /\ ui \in {"app", "call"}
    /\ ret' = Rules(txt, mode)
    /\ result' = Finish(ret')
    /\ ui' = "done"
    /\ UNCHANGED <<txt, parts, mode, ai>>

\* a call ai_judge(content) in the environment env
Judge(env) ==
    /\ ai.pc = "idle"
    /\ ai' = [pc |-> "returned", env |-> env, out |-> ai_judge(env)]
    /\ UNCHANGED <<txt, parts, ui, mode, ret, result>>

Next ==
    \/ \E f \in Fragments : Type(f)
    \/ Analyze
    \/ AnalyzeBlank
    \/ \E m \in Modes : Call(m)
    \/ Run

Spec == Init /\ [][Next]_vars

NextAI == \E env \in Envs : Judge(env)

SpecAI == Init /\ [][NextAI]_vars

(***************************************************************************)
(* What the claims speak of.                                               *)
(***************************************************************************)
MetaLabels == {"Risk band", "Rule score"}

CategoryLabels ==
    <<"Urgency language", "Threat/penalty language", "Credentials / OTP request",
      "Payment / money request", "Attachment lure", "Generic greeting">>

\* the URL checks in the order _score_single_url makes them, with their weights
UrlChecks ==
    <<"IP address URL", "Unusual domain", "Noisy domain", "URL shortener",
      "Possible brand impersonation">>

UrlWeights == <<25, 18, 15, 20, 22>>

UrlLabels == {UrlChecks[k] : k \in DOMAIN UrlChecks}

IsUrlFinding(f) == f.label \in UrlLabels

IsCategoryFinding(f) == \E k \in DOMAIN CategoryLabels : f.label = CategoryLabels[k]

\* the place of a detection finding's check in the order the checks run
Rank(label) ==
    IF \E k \in DOMAIN CategoryLabels : label = CategoryLabels[k]
    THEN CHOOSE k \in DOMAIN CategoryLabels : label = CategoryLabels[k]
    ELSE Len(CategoryLabels) + 1

RECURSIVE SumWeights(_)
SumWeights(fs) == IF fs = <<>> THEN 0 ELSE Head(fs).weight + SumWeights(Tail(fs))

\* the finding was emitted for this embedded URL: its detail ends with " (url)"
IsFor(f, url) == EndsWith(f.detail, " (" \o url \o ")")

RECURSIVE InOrder(_, _, _, _)
\* the findings fs[i..] are for URLs of urls[k..], in the same order
InOrder(fs, i, urls, k) ==
    IF i > Len(fs) THEN TRUE
    ELSE IF k > Len(urls) THEN FALSE
    ELSE IF IsFor(fs[i], urls[k]) THEN InOrder(fs, i + 1, urls, k + 1)
    ELSE InOrder(fs, i, urls, k + 1)

\* whether the condition of the c-th URL check holds of a host
Holds(c, host, text_lower) ==
    CASE c = 1 -> IsRawIP(SplitFirst(host, ":"))
      [] c = 2 -> FirstTld(host) # 0
      [] c = 3 -> Count(host, Digits) >= 5 \/ Count(host, {"-"}) >= 3
      [] c = 4 -> IsShortener(host)
      [] c = 5 -> FirstBrand(host, text_lower) # 0

\* the first URL check whose condition holds of the URL, 0 when none does or the
\* URL does not parse
FirstCheck(url, text_lower) ==
    LET parsed == urlparse(url)
        held == {c \in DOMAIN UrlChecks : Holds(c, Lower(parsed.netloc), text_lower)}
    IN  IF parsed.raised \/ held = {} THEN 0 ELSE MinOf(held)

Done(m) == ui = "done" /\ mode = m

BandOf(res) == res.findings[1].detail

(***************************************************************************)
(* C1: every score returned, by analyze_text_or_url in either mode and by  *)
(* score_and_flags_for_text and score_and_flags_for_url inside it, is an   *)
(* integer from 0 to 100.                                                  *)
(***************************************************************************)
C1_ScoreBounded ==
    ui = "done" => result.score \in 0..100 /\ ret.score \in 0..100

\* a text whose weights add up to more than 100 is scored 100
C1_Witness ==
    /\ Done("text")
    /\ SumWeights(ret.findings) > 100
    /\ ret.score = 100
    /\ result.score = 100

(***************************************************************************)
(* C2: the findings returned start with the two meta findings "Risk band"  *)
(* and "Rule score" (severity info, weight 0); no meta finding follows;    *)
(* the detection findings come in the order the checks ran: urgency,       *)
(* threat, credential, payment, attachment, greeting, then the URL         *)
(* findings in the order of the URLs in the text.                          *)
(***************************************************************************)
C2_MetaThenDetection ==
    ui = "done" =>
        LET fs == result.findings
            det == SubSeq(fs, 3, Len(fs))
        IN  /\ Len(fs) >= 2
            /\ fs[1].label = "Risk band" /\ fs[2].label = "Rule score"
            /\ \A i \in 1..2 : fs[i].severity = "info" /\ fs[i].weight = 0
            /\ \A i \in DOMAIN det :
                  det[i].label \notin MetaLabels /\ det[i].severity # "info"
            /\ \A i, j \in DOMAIN det :
                  i < j => /\ Rank(det[i].label) <= Rank(det[j].label)
                           /\ IsCategoryFinding(det[i])
                                 => Rank(det[i].label) < Rank(det[j].label)
            /\ mode = "text" =>
                  InOrder(SelectSeq(det, IsUrlFinding), 1, _extract_urls(txt), 1)
            /\ mode = "url" => Len(det) <= 1

\* four category findings, then the findings of two different URLs
C2_Witness ==
    /\ Done("text")
    /\ Len(SelectSeq(result.findings, IsCategoryFinding)) >= 4
    /\ LET uf == SelectSeq(result.findings, IsUrlFinding)
       IN  Len(uf) = 2 /\ uf[1].label # uf[2].label

(***************************************************************************)
(* C3: the band of the "Risk band" finding is Low iff score < 25, Medium   *)
(* iff 25 <= score < 60, High iff score >= 60, and the "Rule score"        *)
(* finding reports the returned score.                                     *)
(***************************************************************************)
C3_BandFromScore ==
    ui = "done" =>
        /\ BandOf(result) = "Low risk (rules-based)." <=> result.score < 25
        /\ BandOf(result) = "Medium risk (rules-based)."
              <=> (25 <= result.score /\ result.score < 60)
        /\ BandOf(result) = "High risk (rules-based)." <=> result.score >= 60
        /\ result.findings[2].detail = ToString(result.score) \o "/100 (heuristics)."

\* the lowest score of the Medium band
C3_Witness ==
    /\ ui = "done"
    /\ result.score = 25
    /\ BandOf(result) = "Medium risk (rules-based)."

(***************************************************************************)
(* C4: for a non-blank input the app analyses in "url" mode iff            *)
(* extract_urls yields exactly one URL and that URL is the trimmed input;  *)
(* else in "text" mode.                                                    *)
(***************************************************************************)
C4_ModeLaw ==
    ui = "app" =>
        /\ mode \in Modes
        /\ mode = "url" <=> /\ Len(extract_urls(txt)) = 1
                            /\ extract_urls(txt)[1] = Strip(txt)

\* a single URL with white space around it is analysed in url mode
C4_Witness == ui = "app" /\ mode = "url" /\ txt # Strip(txt)

(***************************************************************************)
(* C5: ai_judge always returns a {score, rationale} value and no           *)
(* exception: score 0 and the disabled rationale, the service not          *)
(* contacted, without a key; score 0 and an error rationale when the       *)
(* client, the call, the JSON extraction or the number fails; a score      *)
(* from 0 to 100 in every case.                                            *)
(***************************************************************************)
C5_NeverRaises ==
    ai.pc = "returned" =>
        /\ ai.out.raised = ""
        /\ ai.out.score \in 0..100
        /\ ai.out.rationale # ""
        /\ ~ai_available(ai.env) =>
              /\ ai.out.score = 0
              /\ ai.out.rationale = "AI disabled (no API key set or not visible)."
              /\ ~ai.out.contacted
        /\ (/\ ai_available(ai.env)
            /\ \/ ai.env.client # "ok"
               \/ ai.env.reply.kind \notin {"score missing", "score int", "score digits"})
              => /\ ai.out.score = 0
                 /\ \/ StartsAt(ai.out.rationale, 1, "AI error; running rules-only.")
                    \/ ai.out.rationale = "AI returned no JSON."

\* a key is there, the client is built, and the failure of the body is returned
C5_Witness ==
    /\ ai.pc = "returned"
    /\ ai_available(ai.env)
    /\ ai.env.client = "ok"
    /\ ai.out.score = 0
    /\ StartsAt(ai.out.rationale, 1, "AI error; running rules-only.")

(***************************************************************************)
(* C6, as claimed: a text that mentions DHL and embeds the link            *)
(* http://dhl-tracking-update.xyz/parcel gets a high brand finding, a      *)
(* suspicious-TLD finding, and the band High.                              *)
(***************************************************************************)
DhlLink == "http://dhl-tracking-update.xyz/parcel"

DhlScenario ==
    /\ Done("text")
    /\ Contains(Lower(txt), "dhl")
    /\ \E k \in DOMAIN _extract_urls(txt) : _extract_urls(txt)[k] = DhlLink

C6_AsClaimed ==
    DhlScenario =>
        /\ \E i \in DOMAIN result.findings :
              /\ result.findings[i].label = "Possible brand impersonation"
              /\ result.findings[i].severity = "high"
        /\ \E i \in DOMAIN result.findings : result.findings[i].label = "Unusual domain"
        /\ BandOf(result) = "High risk (rules-based)."

(***************************************************************************)
(* C6, amended: such a text gets the medium "Unusual domain" finding of    *)
(* weight 18 for the link and no brand finding for it; the band follows    *)
(* the score, and the bare message scores 18, band Low.                    *)
(***************************************************************************)
C6_TldFindingOnly ==
    DhlScenario =>
        /\ \E i \in DOMAIN result.findings :
              result.findings[i] =
                  Finding("Unusual domain",
                          "Domain ends with .xyz. (" \o DhlLink \o ")", "medium", 18)
        /\ \A i \in DOMAIN result.findings :
              IsFor(result.findings[i], DhlLink)
                  => result.findings[i].label = "Unusual domain"
        /\ Strip(txt) = "DHL parcel: " \o DhlLink
              => result.score = 18 /\ BandOf(result) = "Low risk (rules-based)."

C6_Witness ==
    DhlScenario /\ Strip(txt) = "DHL parcel: " \o DhlLink /\ result.score = 18

(***************************************************************************)
(* C7, as claimed: every URL check whose condition holds emits its own     *)
(* finding, none is skipped because an earlier one matched.                *)
(***************************************************************************)
C7_AsClaimed ==
    (Done("url") /\ ~urlparse(Strip(txt)).raised) =>
        \A c \in DOMAIN UrlChecks :
            Holds(c, Lower(urlparse(Strip(txt)).netloc), Lower(Strip(txt)))
                => \E i \in DOMAIN ret.findings : ret.findings[i].label = UrlChecks[c]

(***************************************************************************)
(* C7, amended: the checks run in the order raw IP, suspicious TLD, noisy  *)
(* domain, shortener, brand; the first whose condition holds emits the one *)
(* finding of the URL and the later ones are skipped; the URL's weight is  *)
(* that finding's weight, 0 with no finding when no condition holds.       *)
(***************************************************************************)
C7_FirstMatchOnly ==
    /\ Done("url") =>
          LET c == FirstCheck(Strip(txt), Lower(Strip(txt)))
          IN  IF c = 0 THEN ret.findings = <<>> /\ ret.score = 0
              ELSE /\ Len(ret.findings) = 1
                   /\ ret.findings[1].label = UrlChecks[c]
                   /\ ret.findings[1].weight = UrlWeights[c]
                   /\ ret.score = UrlWeights[c]
    /\ Done("text") =>
          LET urls == _extract_urls(txt)
              tl == Lower(txt)
              uf == SelectSeq(ret.findings, IsUrlFinding)
              hit == {k \in DOMAIN urls : FirstCheck(urls[k], tl) # 0}
          IN  /\ Len(uf) = Cardinality(hit)
              /\ \A i \in DOMAIN uf : \E k \in hit :
                    /\ IsFor(uf[i], urls[k])
                    /\ uf[i].label = UrlChecks[FirstCheck(urls[k], tl)]
                    /\ uf[i].weight = UrlWeights[FirstCheck(urls[k], tl)]

\* two conditions hold of the URL and one finding is emitted
C7_Witness ==
    /\ Done("url")
    /\ Cardinality({c \in DOMAIN UrlChecks :
           Holds(c, Lower(urlparse(Strip(txt)).netloc), Lower(Strip(txt)))}) >= 2
    /\ ~urlparse(Strip(txt)).raised
    /\ Len(ret.findings) = 1

(***************************************************************************)
(* C8, as claimed: a URL that fails to parse or has an empty host gets     *)
(* exactly one high "malformed URL" finding of weight 25.                  *)
(***************************************************************************)
C8_AsClaimed ==
    (/\ Done("url")
     /\ SelectMode(txt) = "url"
     /\ urlparse(Strip(txt)).raised \/ urlparse(Strip(txt)).netloc = "")
        => /\ Len(ret.findings) = 1
           /\ ret.findings[1].severity = "high"
           /\ ret.findings[1].weight = 25

(***************************************************************************)
(* C8, amended: a URL that fails to parse gets no finding and weight 0,    *)
(* and none of the URL checks runs on it; an empty host is not malformed:  *)
(* the checks run on it and only the brand check can match; the analysis   *)
(* returns its result in both cases.                                       *)
(***************************************************************************)
C8_ParseFailureSilent ==
    /\ Done("url") =>
          LET parsed == urlparse(Strip(txt))
              brand == FirstBrand("", Lower(Strip(txt)))
          IN  /\ parsed.raised =>
                    /\ ret.findings = <<>> /\ ret.score = 0
                    /\ result.score = 0 /\ Len(result.findings) = 2
              /\ (~parsed.raised /\ parsed.netloc = "") =>
                    /\ brand = 0 => ret.findings = <<>> /\ ret.score = 0
                    /\ brand # 0 =>
                          /\ Len(ret.findings) = 1
                          /\ ret.findings[1].label = "Possible brand impersonation"
                          /\ ret.score = 22
                    /\ Len(result.findings) = 2 + Len(ret.findings)
    /\ Done("text") =>
          LET urls == _extract_urls(txt)
          IN  \A k \in DOMAIN urls :
                  urlparse(urls[k]).raised =>
                      \A i \in DOMAIN ret.findings : ~IsFor(ret.findings[i], urls[k])

\* the URL does not parse, the brand check would match, and nothing is emitted
C8_Witness ==
    /\ Done("url")
    /\ urlparse(Strip(txt)).raised
    /\ Holds(5, Lower(urlparse(Strip(txt)).netloc), Lower(Strip(txt)))
    /\ ret.findings = <<>>

(***************************************************************************)
(* C9, as claimed: the score of score_and_flags_for_text is the sum of the *)
(* weights of all its findings, clamped to 100.                            *)
(***************************************************************************)
C9_AsClaimed ==
    Done("text") => ret.score = Min(100, SumWeights(ret.findings))

(***************************************************************************)
(* C9, amended: the score is the sum of the weights of the category        *)
(* findings plus the sum of the weights of the URL findings capped at 40,  *)
(* the total clamped to 100.                                               *)
(***************************************************************************)
C9_UrlShareCapped ==
    Done("text") =>
        ret.score =
            Min(100, SumWeights(SelectSeq(ret.findings, IsCategoryFinding))
                     + Min(40, SumWeights(SelectSeq(ret.findings, IsUrlFinding))))

\* URL findings that weigh more than 40 together
C9_Witness ==
    /\ Done("text")
    /\ SumWeights(SelectSeq(ret.findings, IsUrlFinding)) > 40
    /\ ret.score < 100

(***************************************************************************)
(* C10: with count the number of phrases of the category found in the      *)
(* lower-cased text, each of the credential, payment and attachment        *)
(* checks emits no finding for count = 0 and one for count > 0:            *)
(* credential weight min(30, 10*count), severity high; payment weight      *)
(* min(25, 7*count), severity medium for count = 1 and high above;         *)
(* attachment weight min(20, 5*count), severity medium.                    *)
(***************************************************************************)
Emitted(label, count, weight, severity) ==
    LET fs == SelectSeq(ret.findings, LAMBDA f : f.label = label)
    IN  IF count = 0 THEN fs = <<>>
        ELSE /\ Len(fs) = 1
             /\ fs[1].weight = weight
             /\ fs[1].severity = severity

C10_CategoryWeights ==
    Done("text") =>
        LET cred == Hits(CREDENTIAL_TERMS, Lower(txt))
            pay == Hits(PAYMENT_TERMS, Lower(txt))
            att == Hits(ATTACHMENT_TERMS, Lower(txt))
        IN  /\ Emitted("Credentials / OTP request", cred, Min(30, 10 * cred), "high")
            /\ Emitted("Payment / money request", pay, Min(25, 7 * pay),
                       IF pay = 1 THEN "medium" ELSE "high")
            /\ Emitted("Attachment lure", att, Min(20, 5 * att), "medium")

\* every cap binds: more phrases than the cap pays for
C10_Witness ==
    /\ Done("text")
    /\ Hits(CREDENTIAL_TERMS, Lower(txt)) > 3
    /\ Hits(PAYMENT_TERMS, Lower(txt)) > 3
    /\ Hits(ATTACHMENT_TERMS, Lower(txt)) > 4

====
